---- MODULE Spec2Model ----
(***************************************************************************)
(* Model of owl2_rs.  The tableau reasoner (src/src/reasoner.rs): the      *)
(* completion graph, the initialization from an ontology, the four         *)
(* expansion rules, the clash check and the services built on them         *)
(* (is_consistent, classify, realize, is_instance_of).  The profile        *)
(* checker (src/src/owl2_profile.rs): the EL and RL checks.  The async     *)
(* methods of api::Reasoner (src/src/api.rs) and the ReasonerCache         *)
(* (src/src/cache.rs).                                                     *)
(***************************************************************************)
EXTENDS Integers, Sequences, FiniteSets, TLC

VARIABLES ontology, graph, ret, pc, iter, calls, task, cache

vars == <<ontology, graph, ret, pc, iter, calls, task, cache>>

(***************************************************************************)
(* Bounds of the model.                                                    *)
(***************************************************************************)
\* longest ontology (number of axioms) drawn in Init
MaxAxioms == 3
\* cap on the iterations of the expansion loop of one is_consistent call
MaxIter == 6
\* number of service calls made on one reasoner
MaxCalls == 2
\* deepest nesting of constructors in a class expression handed to the
\* profile checker
MaxDepth == 2
\* number of operations applied to one completion graph by a client of
\* the graph and of the rules, and to one ReasonerCache by its client
MaxSteps == 4
\* largest max_cache_size of a CacheConfig
MaxCacheSize == 2

(***************************************************************************)
(* Abstract syntax (src/src/lib.rs).  A class expression is a record       *)
(* [k, n, es]: the variant, the IRI of the class or property, the operand  *)
(* expressions.  Structural equality is record equality.                   *)
(***************************************************************************)
Named(iri) == [kind |-> "Named", id |-> iri]
Anonymous(node_id) == [kind |-> "Anonymous", id |-> node_id]

Class(iri) == [k |-> "Class", n |-> iri, es |-> <<>>]
ObjectIntersectionOf(operands) == [k |-> "ObjectIntersectionOf", n |-> "", es |-> operands]
ObjectUnionOf(operands) == [k |-> "ObjectUnionOf", n |-> "", es |-> operands]
ObjectComplementOf(e) == [k |-> "ObjectComplementOf", n |-> "", es |-> <<e>>]
ObjectSomeValuesFrom(property, filler) == [k |-> "ObjectSomeValuesFrom", n |-> property, es |-> <<filler>>]
ObjectAllValuesFrom(property, filler) == [k |-> "ObjectAllValuesFrom", n |-> property, es |-> <<filler>>]

\* An axiom is a record [t, ces, p, inds]: the variant, its class
\* expressions, its property, its individuals.
ClassAssertion(class, individual) == [t |-> "ClassAssertion", ces |-> <<class>>, p |-> "", inds |-> <<individual>>]
ObjectPropertyAssertion(property, source, target) == [t |-> "ObjectPropertyAssertion", ces |-> <<>>, p |-> property, inds |-> <<source, target>>]
SameIndividual(individuals) == [t |-> "SameIndividual", ces |-> <<>>, p |-> "", inds |-> individuals]
SubClassOf(sub_class, super_class) == [t |-> "SubClassOf", ces |-> <<sub_class, super_class>>, p |-> "", inds |-> <<>>]
DisjointClasses(classes) == [t |-> "DisjointClasses", ces |-> classes, p |-> "", inds |-> <<>>]

(***************************************************************************)
(* Vec helpers.                                                            *)
(***************************************************************************)
\* Vec::contains
Contains(s, e) == \E x \in 1..Len(s) : s[x] = e

\* nodes.iter().position(|n| &n.individual == individual); 0 stands for None
Position(nodes, individual) ==
    IF \E x \in 1..Len(nodes) : nodes[x].individual = individual
    THEN CHOOSE x \in 1..Len(nodes) :
            /\ nodes[x].individual = individual
            /\ \A y \in 1..(x - 1) : nodes[y].individual # individual
    ELSE 0

RECURSIVE Flatten(_)
Flatten(ss) == IF ss = <<>> THEN <<>> ELSE Head(ss) \o Flatten(Tail(ss))

(***************************************************************************)
(* CompletionGraph.                                                        *)
(***************************************************************************)
NewGraph == [nodes |-> <<>>, next_fresh_id |-> 0]

add_node(g, individual) ==
    [g EXCEPT !.nodes = Append(@, [individual |-> individual, concepts |-> <<>>, roles |-> <<>>])]

get_or_create_node(g, individual) ==
    IF Position(g.nodes, individual) # 0 THEN g ELSE add_node(g, individual)

\* variant: the concept is pushed without the contains test
push_concept_unchecked(g, x, concept) ==
    [g EXCEPT !.nodes[x].concepts = Append(@, concept)]

\* if !node.concepts.contains(&concept) { node.concepts.push(concept) }
\* on the node at index x
push_concept(g, x, concept) ==
    IF Contains(g.nodes[x].concepts, concept) THEN g
    ELSE [g EXCEPT !.nodes[x].concepts = Append(@, concept)]

\* the same on the (first) node of the individual, which exists in g
push_concept_of(g, individual, concept) ==
    push_concept(g, Position(g.nodes, individual), concept)

add_concept(g, individual, concept) ==
    push_concept_of(get_or_create_node(g, individual), individual, concept)

\* if !node.roles.contains(&role_assertion) { node.roles.push(role_assertion) }
push_role(g, x, role_assertion) ==
    IF Contains(g.nodes[x].roles, role_assertion) THEN g
    ELSE [g EXCEPT !.nodes[x].roles = Append(@, role_assertion)]

push_role_of(g, individual, role_assertion) ==
    push_role(g, Position(g.nodes, individual), role_assertion)

\* only the source's node is looked up or created, never the target's
add_role(g, source, role, target) ==
    push_role_of(get_or_create_node(g, source), source, <<role, target>>)

(***************************************************************************)
(* next_fresh_id is a u32.  A u32 value v is held as the 32-bit integer    *)
(* with the same bits: v itself below 2^31, v - 2^32 from 2^31 on, so that *)
(* 2^32 - 1 is held as -1 and the successor of 2^32 - 1 is 0.              *)
(***************************************************************************)
I32_MAX == 2147483647

\* u32::wrapping_add: a + b modulo 2^32 (what += does without overflow checks)
wrapping_add(a, b) ==
    IF a >= 0 /\ b >= 0 /\ b > I32_MAX - a
    THEN ((a - I32_MAX) - 1) + ((b - I32_MAX) - 1)
    ELSE IF a < 0 /\ b < 0 /\ b < ((0 - I32_MAX) - 1) - a
    THEN ((a + I32_MAX) + 1) + ((b + I32_MAX) + 1)
    ELSE a + b

\* a < b as u32 values
u32_lt(a, b) ==
    \/ a >= 0 /\ b < 0
    \/ (a >= 0) = (b >= 0) /\ a < b

\* six decimal digits, zero padded
Pad6(n) ==
    SubSeq("000000", 1, 6 - Len(ToString(n))) \o ToString(n)

\* format!("{}", v) for a u32
U32ToString(a) ==
    IF a >= 0 THEN ToString(a)
    ELSE ToString(4294 + ((967296 + a) \div 1000000)) \o Pad6((967296 + a) % 1000000)

\* self.next_fresh_id += 1 wraps (release profile); with overflow checks
\* (debug profile) the addition panics at 2^32 - 1, see FreshIndividual
fresh_individual(g) ==
    [graph |-> [g EXCEPT !.next_fresh_id = wrapping_add(@, 1)],
     individual |-> Anonymous("_:fresh" \o U32ToString(wrapping_add(g.next_fresh_id, 1)))]

(***************************************************************************)
(* TableauReasoner::initialize.  The graph is not reset: the assertions    *)
(* are added to whatever the graph already holds.                          *)
(***************************************************************************)
RECURSIVE ensure_nodes(_, _)
ensure_nodes(g, individuals) ==
    IF individuals = <<>> THEN g
    ELSE ensure_nodes(get_or_create_node(g, Head(individuals)), Tail(individuals))

initialize_axiom(g, axiom) ==
    CASE axiom.t = "ClassAssertion" -> add_concept(g, axiom.inds[1], axiom.ces[1])
      [] axiom.t = "ObjectPropertyAssertion" -> add_role(g, axiom.inds[1], axiom.p, axiom.inds[2])
      [] axiom.t = "SameIndividual" -> ensure_nodes(g, axiom.inds)
      [] OTHER -> g

RECURSIVE initialize_from(_, _)
initialize_from(axioms, g) ==
    IF axioms = <<>> THEN g
    ELSE initialize_from(Tail(axioms), initialize_axiom(g, Head(axioms)))

initialize(onto, g) == initialize_from(onto, g)

(***************************************************************************)
(* Expansion rules.  Every rule iterates over a clone of the node list     *)
(* taken when the rule starts and writes to the live graph; a rule returns *)
(* the new graph and whether it added anything.                            *)
(***************************************************************************)
\* the concepts of variant kind in the cloned nodes, in iteration order
ConceptItems(nodes, kind) ==
    Flatten([x \in 1..Len(nodes) |->
        LET cs == SelectSeq(nodes[x].concepts, LAMBDA c : c.k = kind)
        IN  [y \in 1..Len(cs) |-> [individual |-> nodes[x].individual, concept |-> cs[y]]]])

\* if !node_mut.concepts.contains(&c) { node_mut.concepts.push(c); added = true }
\* on the node at index x of g1
push_if_absent_at(acc, g1, x, concept) ==
    IF Contains(g1.nodes[x].concepts, concept)
    THEN [graph |-> g1, added |-> acc.added]
    ELSE [graph |-> [g1 EXCEPT !.nodes[x].concepts = Append(@, concept)], added |-> TRUE]

push_if_absent_in(acc, g1, individual, concept) ==
    push_if_absent_at(acc, g1, Position(g1.nodes, individual), concept)

\* node_mut = get_or_create_node(individual); push the concept if absent
push_if_absent(acc, individual, concept) ==
    push_if_absent_in(acc, get_or_create_node(acc.graph, individual), individual, concept)

RECURSIVE push_all(_, _, _)
push_all(acc, individual, concepts) ==
    IF concepts = <<>> THEN acc
    ELSE push_all(push_if_absent(acc, individual, Head(concepts)), individual, Tail(concepts))

\* one sweep of the for loops of apply_conjunction_rule
RECURSIVE conjunction_sweep(_, _)
conjunction_sweep(acc, items) ==
    IF items = <<>> THEN acc
    ELSE conjunction_sweep(push_all(acc, Head(items).individual, Head(items).concept.es), Tail(items))

\* while new_concepts_added { ... }: r is the outcome of one sweep
RECURSIVE conjunction_loop(_, _)
conjunction_again(r, any_added) ==
    IF r.added THEN conjunction_loop(r.graph, TRUE)
    ELSE [graph |-> r.graph, added |-> any_added]

conjunction_loop(g, any_added) ==
    conjunction_again(
        conjunction_sweep([graph |-> g, added |-> FALSE], ConceptItems(g.nodes, "ObjectIntersectionOf")),
        any_added)

apply_conjunction_rule(g) == conjunction_loop(g, FALSE)

\* the first disjunct is chosen, always
RECURSIVE disjunction_sweep(_, _)
disjunction_sweep(acc, items) ==
    IF items = <<>> THEN acc
    ELSE disjunction_sweep(
            IF Head(items).concept.es # <<>>
            THEN push_if_absent(acc, Head(items).individual, Head(items).concept.es[1])
            ELSE acc,
            Tail(items))

apply_disjunction_rule(g) ==
    disjunction_sweep([graph |-> g, added |-> FALSE], ConceptItems(g.nodes, "ObjectUnionOf"))

\* roles.iter().find(|(p, _)| p == property): index of the first role with
\* the property, 0 for None
FirstRole(roles, property) ==
    IF \E x \in 1..Len(roles) : roles[x][1] = property
    THEN CHOOSE x \in 1..Len(roles) :
            /\ roles[x][1] = property
            /\ \A y \in 1..(x - 1) : roles[y][1] # property
    ELSE 0

\* push the filler to the node of target when that node exists and lacks it
push_to_target_at(acc, t, filler) ==
    IF t # 0 /\ ~Contains(acc.graph.nodes[t].concepts, filler)
    THEN [graph |-> [acc.graph EXCEPT !.nodes[t].concepts = Append(@, filler)], added |-> TRUE]
    ELSE acc

push_to_target(acc, target, filler) ==
    push_to_target_at(acc, Position(acc.graph.nodes, target), filler)

\* the else branch of the existential rule: f is what fresh_individual
\* returned; the role to it goes on the node at node_index, then the node of
\* the fresh individual is pushed with the filler as its only concept
new_successor(f, node_index, property, filler) ==
    [graph |-> [f.graph EXCEPT
                    !.nodes = Append([@ EXCEPT ![node_index].roles = Append(@, <<property, f.individual>>)],
                                     [individual |-> f.individual,
                                      concepts |-> <<filler>>,
                                      roles |-> <<>>])],
     added |-> TRUE]

\* existing: index of the first role of the node with the property, or 0
existential_choice(acc, node_index, existing, property, filler) ==
    IF existing # 0
    THEN push_to_target(acc, acc.graph.nodes[node_index].roles[existing][2], filler)
    ELSE new_successor(fresh_individual(acc.graph), node_index, property, filler)

existential_at(acc, node_index, property, filler) ==
    existential_choice(acc, node_index,
                       FirstRole(acc.graph.nodes[node_index].roles, property),
                       property, filler)

\* variant: a fresh successor is minted without looking for an existing one
existential_step_always_fresh(acc, individual, concept) ==
    new_successor(fresh_individual(acc.graph), Position(acc.graph.nodes, individual),
                  concept.n, concept.es[1])

\* the body of the loops of apply_existential_rule for one ObjectSomeValuesFrom
existential_step(acc, individual, concept) ==
    existential_at(acc, Position(acc.graph.nodes, individual), concept.n, concept.es[1])

RECURSIVE existential_sweep(_, _)
existential_sweep(acc, items) ==
    IF items = <<>> THEN acc
    ELSE existential_sweep(existential_step(acc, Head(items).individual, Head(items).concept), Tail(items))

apply_existential_rule(g) ==
    existential_sweep([graph |-> g, added |-> FALSE], ConceptItems(g.nodes, "ObjectSomeValuesFrom"))

RECURSIVE push_to_targets(_, _, _)
push_to_targets(acc, role_assertions, filler) ==
    IF role_assertions = <<>> THEN acc
    ELSE push_to_targets(push_to_target(acc, Head(role_assertions)[2], filler), Tail(role_assertions), filler)

\* the body of the loops of apply_universal_rule for one ObjectAllValuesFrom
universal_at(acc, node_index, concept) ==
    IF node_index = 0 THEN acc
    ELSE push_to_targets(acc,
            SelectSeq(acc.graph.nodes[node_index].roles, LAMBDA r : r[1] = concept.n),
            concept.es[1])

universal_step(acc, individual, concept) ==
    universal_at(acc, Position(acc.graph.nodes, individual), concept)

RECURSIVE universal_sweep(_, _)
universal_sweep(acc, items) ==
    IF items = <<>> THEN acc
    ELSE universal_sweep(universal_step(acc, Head(items).individual, Head(items).concept), Tail(items))

apply_universal_rule(g) ==
    universal_sweep([graph |-> g, added |-> FALSE], ConceptItems(g.nodes, "ObjectAllValuesFrom"))

(***************************************************************************)
(* Clash check and the expansion loop of is_consistent.                    *)
(***************************************************************************)
\* variant: a complement is compared with the concepts pushed before it only
has_clash_earlier_only(g) ==
    \E x \in 1..Len(g.nodes) :
        \E y \in 1..Len(g.nodes[x].concepts) :
            /\ g.nodes[x].concepts[y].k = "ObjectComplementOf"
            /\ Contains(SubSeq(g.nodes[x].concepts, 1, y - 1), g.nodes[x].concepts[y].es[1])

has_clash(g) ==
    \E x \in 1..Len(g.nodes) :
        \E y \in 1..Len(g.nodes[x].concepts) :
            /\ g.nodes[x].concepts[y].k = "ObjectComplementOf"
            /\ Contains(g.nodes[x].concepts, g.nodes[x].concepts[y].es[1])

\* one iteration of the while loop: the four rules in order
\* if self.apply_..._rule() { new_added = true }: r is the pass so far, s
\* the outcome of the next rule on r.graph
new_added(r, s) == [graph |-> s.graph, added |-> r.added \/ s.added]

then_disjunction(r) == new_added(r, apply_disjunction_rule(r.graph))

then_existential(r) == new_added(r, apply_existential_rule(r.graph))

then_universal(r) == new_added(r, apply_universal_rule(r.graph))

\* one iteration of the while loop: the four rules in order
expansion_pass(g) ==
    then_universal(then_existential(then_disjunction(apply_conjunction_rule(g))))

\* while new_added { ... }: r is the outcome of one iteration
RECURSIVE expansion_loop(_)
expansion_again(r) == IF r.added THEN expansion_loop(r.graph) ELSE r.graph

\* variant: the rules are applied once, not to saturation
expansion_loop_single_pass(g) == expansion_pass(g).graph

expansion_loop(g) == expansion_again(expansion_pass(g))

\* !self.has_clash() on the saturated graph g1
verdict(g1) == [graph |-> g1, result |-> ~has_clash(g1)]

\* is_consistent on a reasoner with ontology onto and graph g: the graph it
\* leaves and the boolean it returns
is_consistent(onto, g) == verdict(expansion_loop(initialize(onto, g)))

(***************************************************************************)
(* Services.  Each takes the reasoner's ontology and graph and yields the  *)
(* graph the call leaves in the reasoner and the value it returns.         *)
(***************************************************************************)
RECURSIVE extract_classes_from_expression(_)
extract_classes_from_expression(expression) ==
    IF expression.k = "Class" THEN <<expression.n>>
    ELSE IF expression.k \in {"ObjectIntersectionOf", "ObjectUnionOf", "ObjectComplementOf",
                              "ObjectSomeValuesFrom", "ObjectAllValuesFrom"}
    THEN Flatten([x \in 1..Len(expression.es) |-> extract_classes_from_expression(expression.es[x])])
    ELSE <<>>

\* first occurrences only, order kept
RECURSIVE Dedup(_, _)
Dedup(s, seen) ==
    IF s = <<>> THEN <<>>
    ELSE IF Head(s) \in seen THEN Dedup(Tail(s), seen)
    ELSE <<Head(s)>> \o Dedup(Tail(s), seen \cup {Head(s)})

extract_classes(onto) ==
    Dedup(Flatten([a \in 1..Len(onto) |->
            IF onto[a].t \in {"SubClassOf", "DisjointClasses", "ClassAssertion"}
            THEN Flatten([x \in 1..Len(onto[a].ces) |-> extract_classes_from_expression(onto[a].ces[x])])
            ELSE <<>>]),
          {})

\* variant: the verdict of the temporary reasoner is returned unnegated
is_subsumed_by_unnegated(onto, class_c, class_d) ==
    is_consistent(onto, add_concept(NewGraph, Anonymous("_:test"),
        ObjectIntersectionOf(<<Class(class_c), ObjectComplementOf(Class(class_d))>>))).result

\* a temporary reasoner on the same ontology whose graph starts with
\* _:test : C and not D
is_subsumed_by(onto, class_c, class_d) ==
    ~is_consistent(onto, add_concept(NewGraph, Anonymous("_:test"),
        ObjectIntersectionOf(<<Class(class_c), ObjectComplementOf(Class(class_d))>>))).result

EmptyMap == <<>>

\* map.entry(key).or_insert_with(Vec::new).push(value)
MapPush(map, key, value) ==
    IF key \in DOMAIN map THEN [map EXCEPT ![key] = Append(@, value)]
    ELSE map @@ (key :> <<value>>)

NewClassHierarchy == [subclasses |-> EmptyMap, superclasses |-> EmptyMap]

\* the two nested loops of classify over the pairs (C, D), in order
\* the body of the two for loops of classify for one pair of classes
classify_pair(onto, class_c, class_d, hierarchy) ==
    IF class_c # class_d /\ is_subsumed_by(onto, class_c, class_d)
    THEN [superclasses |-> MapPush(hierarchy.superclasses, class_c, class_d),
          subclasses   |-> MapPush(hierarchy.subclasses, class_d, class_c)]
    ELSE hierarchy

RECURSIVE classify_pairs(_, _, _)
classify_pairs(onto, pairs, hierarchy) ==
    IF pairs = <<>> THEN hierarchy
    ELSE classify_pairs(onto, Tail(pairs),
            classify_pair(onto, Head(pairs)[1], Head(pairs)[2], hierarchy))

\* variant: no early return for an inconsistent ontology
\* for class_c in &classes { for class_d in &classes { ... } }
ClassPairs(classes) ==
    Flatten([x \in 1..Len(classes) |-> [y \in 1..Len(classes) |-> <<classes[x], classes[y]>>]])

classify_all(onto) ==
    classify_pairs(onto, ClassPairs(extract_classes(onto)), NewClassHierarchy)

\* classify after its call of is_consistent, which returned c
classify_from(onto, c) ==
    IF ~c.result
    THEN [graph |-> c.graph, result |-> NewClassHierarchy]
    ELSE [graph |-> c.graph, result |-> classify_all(onto)]

\* variant: no early return for an inconsistent ontology
classify_unchecked(onto, g) ==
    [graph |-> is_consistent(onto, g).graph, result |-> classify_all(onto)]

classify(onto, g) == classify_from(onto, is_consistent(onto, g))

\* the named classes in the label of the first node of the individual
\* variant: every class named anywhere in a concept of the label counts
NamedClasses_mentioned(concepts) ==
    Flatten([y \in 1..Len(concepts) |-> extract_classes_from_expression(concepts[y])])

\* the names of the Class concepts of a label, in order
NamedClasses(concepts) ==
    [y \in 1..Len(SelectSeq(concepts, LAMBDA c : c.k = "Class")) |->
        SelectSeq(concepts, LAMBDA c : c.k = "Class")[y].n]

\* types.most_specific = types.all.clone()
IndividualTypes(all) == [most_specific |-> all, all |-> all]

find_individual_types_at(g, x) ==
    IndividualTypes(IF x = 0 THEN <<>> ELSE NamedClasses(g.nodes[x].concepts))

find_individual_types(g, individual) ==
    find_individual_types_at(g, Position(g.nodes, individual))

\* realize after its call of is_consistent, which returned c
realize_from(c) ==
    IF ~c.result
    THEN [graph |-> c.graph, result |-> EmptyMap]
    ELSE [graph |-> c.graph,
          result |-> [i \in {c.graph.nodes[x].individual : x \in 1..Len(c.graph.nodes)} |->
                        find_individual_types(c.graph, i)]]

realize(onto, g) == realize_from(is_consistent(onto, g))

\* the direct look-up of is_instance_of in the node at index x of g
directly_asserted(g, x, class) ==
    x # 0 /\ Contains(g.nodes[x].concepts, Class(class))

\* the final test without the negation of its result
is_instance_of_from_unnegated(onto, c, individual, class) ==
    IF ~c.result
    THEN [graph |-> c.graph, result |-> FALSE]
    ELSE IF directly_asserted(c.graph, Position(c.graph.nodes, individual), class)
    THEN [graph |-> c.graph, result |-> TRUE]
    ELSE [graph |-> c.graph,
          result |-> is_consistent(onto,
                        add_concept(c.graph, individual, ObjectComplementOf(Class(class)))).result]

\* is_instance_of after its call of is_consistent, which returned c
is_instance_of_from(onto, c, individual, class) ==
    IF ~c.result
    THEN [graph |-> c.graph, result |-> FALSE]
    ELSE IF directly_asserted(c.graph, Position(c.graph.nodes, individual), class)
    THEN [graph |-> c.graph, result |-> TRUE]
    ELSE [graph |-> c.graph,
          result |-> ~is_consistent(onto,
                        add_concept(c.graph, individual, ObjectComplementOf(Class(class)))).result]

is_instance_of(onto, g, individual, class) ==
    is_instance_of_from(onto, is_consistent(onto, g), individual, class)

(***************************************************************************)
(* The ontologies the reasoner is constructed with: at most MaxAxioms      *)
(* distinct axioms of AxiomPool, in the order of the pool or in the        *)
(* reverse order.                                                          *)
(***************************************************************************)
ClassNames == {"A", "B", "C"}
IndividualPool == {Named("i"), Named("j")}

AxiomPool ==
    << ClassAssertion(Class("A"), Named("i")),
       ClassAssertion(ObjectComplementOf(Class("A")), Named("i")),
       ClassAssertion(Class("B"), Named("i")),
       SubClassOf(Class("A"), Class("B")),
       SubClassOf(Class("B"), Class("C")),
       DisjointClasses(<<Class("A"), Class("B")>>),
       ClassAssertion(ObjectUnionOf(<<Class("A"), Class("B")>>), Named("i")),
       ClassAssertion(ObjectSomeValuesFrom("P", Class("A")), Named("i")),
       ClassAssertion(ObjectAllValuesFrom("P", ObjectComplementOf(Class("A"))), Named("i")),
       ObjectPropertyAssertion("P", Named("i"), Named("j")),
       SubClassOf(Class("A"), ObjectSomeValuesFrom("P", Class("A"))),
       ClassAssertion(ObjectSomeValuesFrom("P",
            ObjectIntersectionOf(<<Class("A"), ObjectComplementOf(Class("A"))>>)), Named("i")),
       ClassAssertion(ObjectComplementOf(ObjectUnionOf(<<Class("A"), Class("B")>>)), Named("i")),
       SameIndividual(<<Named("i"), Named("j")>>),
       ClassAssertion(ObjectComplementOf(Class("A")), Named("j")) >>

Monotone(ix) ==
    \/ \A x \in 1..(Len(ix) - 1) : ix[x] < ix[x + 1]
    \/ \A x \in 1..(Len(ix) - 1) : ix[x] > ix[x + 1]

Ontologies ==
    { [x \in 1..Len(ix) |-> AxiomPool[ix[x]]] :
        ix \in { s \in UNION {[1..n -> 1..Len(AxiomPool)] : n \in 0..MaxAxioms} : Monotone(s) } }

(***************************************************************************)
(* State machine.  ontology and graph are the fields of one                *)
(* TableauReasoner; ret is the last call and the value it returned.  With  *)
(* the async methods of api::Reasoner, ontology and graph are the fields   *)
(* of its tableau_reasoner.                                                *)
(***************************************************************************)
NoCall == [op |-> "none", args |-> <<>>, val |-> FALSE]

\* no ReasonerCache was constructed: cache is the ReasonerCache of a client
\* of src/src/cache.rs
NoCache == [consistency_cache |-> <<>>, classification_cache |-> <<>>,
            realization_cache |-> <<>>,
            config |-> [enabled |-> FALSE, max_cache_size |-> 0]]

\* no blocking task was spawned: task is the last task handed to
\* tokio::task::spawn_blocking by an async method of api::Reasoner
NoTask == [state |-> "none", handle |-> "none", op |-> "none",
           reasoner |-> [ontology |-> <<>>, graph |-> NewGraph], result |-> FALSE]

\* TableauReasoner::new(ontology)
Init ==
    /\ ontology \in Ontologies
    /\ graph = NewGraph
    /\ ret = NoCall
    /\ pc = "idle"
    /\ iter = 0
    /\ calls = 0
    /\ task = NoTask
    /\ cache = NoCache

\* the call returns: r.graph is the state it leaves in the reasoner,
\* r.result the value handed to the caller
Returns(op, args, r) ==
    /\ graph' = r.graph
    /\ ret' = [op |-> op, args |-> args, val |-> r.result]

IsConsistent ==
    /\ pc = "idle"
    /\ calls < MaxCalls
    /\ calls' = calls + 1
    /\ Returns("is_consistent", <<>>, is_consistent(ontology, graph))
    /\ UNCHANGED <<ontology, pc, iter, task, cache>>

Classify ==
    /\ pc = "idle"
    /\ calls < MaxCalls
    /\ calls' = calls + 1
    /\ Returns("classify", <<>>, classify(ontology, graph))
    /\ UNCHANGED <<ontology, pc, iter, task, cache>>

Realize ==
    /\ pc = "idle"
    /\ calls < MaxCalls
    /\ calls' = calls + 1
    /\ Returns("realize", <<>>, realize(ontology, graph))
    /\ UNCHANGED <<ontology, pc, iter, task, cache>>

IsInstanceOf ==
    /\ pc = "idle"
    /\ calls < MaxCalls
    /\ calls' = calls + 1
    /\ \E individual \in IndividualPool, class \in ClassNames :
        Returns("is_instance_of", <<individual, class>>,
                is_instance_of(ontology, graph, individual, class))
    /\ UNCHANGED <<ontology, pc, iter, task, cache>>

Next == IsConsistent \/ Classify \/ Realize \/ IsInstanceOf

Spec == Init /\ [][Next]_vars

(***************************************************************************)
(* is_consistent step by step: the call initializes the graph, every       *)
(* iteration of the while loop is one step, the clash check returns.       *)
(***************************************************************************)
BeginIsConsistent ==
    /\ pc = "idle"
    /\ calls < MaxCalls
    /\ graph' = initialize(ontology, graph)
    /\ pc' = "loop"
    /\ iter' = 0
    /\ UNCHANGED <<ontology, ret, calls, task, cache>>

\* r is the outcome of one iteration: the loop goes on while new_added
Iterated(r) ==
    /\ graph' = r.graph
    /\ pc' = IF r.added THEN "loop" ELSE "check"

ExpansionIteration ==
    /\ pc = "loop"
    /\ iter < MaxIter
    /\ Iterated(expansion_pass(graph))
    /\ iter' = iter + 1
    /\ UNCHANGED <<ontology, ret, calls, task, cache>>

ReturnIsConsistent ==
    /\ pc = "check"
    /\ ret' = [op |-> "is_consistent", args |-> <<>>, val |-> ~has_clash(graph)]
    /\ pc' = "idle"
    /\ calls' = calls + 1
    /\ UNCHANGED <<ontology, graph, iter, task, cache>>

NextLoop == BeginIsConsistent \/ ExpansionIteration \/ ReturnIsConsistent

SpecLoop == Init /\ [][NextLoop]_vars

(***************************************************************************)
(* A client that edits the public ontology field of the reasoner between   *)
(* two service calls: reasoner.ontology.axioms.remove(index).  The answer  *)
(* of the call before the edit is about the earlier ontology and is        *)
(* dropped from ret.                                                       *)
(***************************************************************************)
\* Vec::remove(index), indices from 1
RemoveAt(s, index) == SubSeq(s, 1, index - 1) \o SubSeq(s, index + 1, Len(s))

RemoveAxiom ==
    /\ pc = "idle"
    /\ \E index \in 1..Len(ontology) : ontology' = RemoveAt(ontology, index)
    /\ ret' = NoCall
    /\ UNCHANGED <<graph, pc, iter, calls, task, cache>>

NextEdit == IsConsistent \/ Classify \/ Realize \/ IsInstanceOf \/ RemoveAxiom

SpecEdit == Init /\ [][NextEdit]_vars

(***************************************************************************)
(* A client that mints individuals on the reasoner's graph directly:       *)
(* graph and fresh_individual are public.  One step is a run of n          *)
(* successive calls, n a u32; the step keeps the counter read before the   *)
(* run and the individual returned by the last call.  overflow_checks is   *)
(* the build profile: with them the addition that does not fit panics,     *)
(* without them it wraps.                                                  *)
(***************************************************************************)
CallCounts == {1, 2, 0 - 1}

\* n successive calls of fresh_individual without overflow checks: the graph
\* they leave and the individual the last one returns
fresh_individuals(g, n) ==
    [graph |-> [g EXCEPT !.next_fresh_id = wrapping_add(@, n)],
     individual |-> Anonymous("_:fresh" \o U32ToString(wrapping_add(g.next_fresh_id, n)))]

\* one of n > 0 successive increments from a does not fit a u32
overflows_within(a, n) == u32_lt(wrapping_add(a, n), a)

Panic == [kind |-> "panic", id |-> "attempt to add with overflow"]

Minted(before, n, r) ==
    /\ graph' = r.graph
    /\ ret' = [op |-> "fresh_individual", args |-> <<before, n>>, val |-> r.individual]
    /\ pc' = "idle"

Panicked(before, n) ==
    /\ graph' = [graph EXCEPT !.next_fresh_id = 0 - 1]
    /\ ret' = [op |-> "fresh_individual", args |-> <<before, n>>, val |-> Panic]
    /\ pc' = "panicked"

FreshIndividual ==
    /\ pc = "idle"
    /\ calls < MaxCalls
    /\ calls' = calls + 1
    /\ \E n \in CallCounts, overflow_checks \in BOOLEAN :
        IF overflow_checks /\ overflows_within(graph.next_fresh_id, n)
        THEN Panicked(graph.next_fresh_id, n)
        ELSE Minted(graph.next_fresh_id, n, fresh_individuals(graph, n))
    /\ UNCHANGED <<ontology, iter, task, cache>>

NextFresh == IsConsistent \/ FreshIndividual

SpecFresh == Init /\ [][NextFresh]_vars

(***************************************************************************)
(* OWL 2 profile checker (src/src/owl2_profile.rs).                        *)
(*                                                                         *)
(* Syntax beyond what the reasoner reads (src/src/lib.rs).  An object      *)
(* property expression is held as the string of its functional syntax: the *)
(* IRI for ObjectProperty, "ObjectInverseOf(..)" and                       *)
(* "ObjectPropertyChain(..)" for the two other variants.  The further      *)
(* class expressions and axioms carry their extra operands in extra        *)
(* fields; a data range is a record [k, n, es] like a class expression.    *)
(***************************************************************************)
ObjectProperty(iri) == iri
InverseObjectProperty(iri) == "ObjectInverseOf(" \o iri \o ")"
ObjectPropertyChain(iris) == "ObjectPropertyChain(" \o iris \o ")"

\* the variant of an object property expression
PropertyVariant(expr) ==
    IF Len(expr) >= 20 /\ SubSeq(expr, 1, 20) = "ObjectPropertyChain(" THEN "ObjectPropertyChain"
    ELSE IF Len(expr) >= 16 /\ SubSeq(expr, 1, 16) = "ObjectInverseOf(" THEN "InverseObjectProperty"
    ELSE "ObjectProperty"

ObjectOneOf(individuals) ==
    [k |-> "ObjectOneOf", n |-> "", es |-> <<>>, individuals |-> individuals]
ObjectHasValue(property, value) ==
    [k |-> "ObjectHasValue", n |-> property, es |-> <<>>, value |-> value]
ObjectHasSelf(property) == [k |-> "ObjectHasSelf", n |-> property, es |-> <<>>]
\* filler is an Option: <<>> for None, <<e>> for Some(e)
ObjectMinCardinality(min, property, filler) ==
    [k |-> "ObjectMinCardinality", n |-> property, es |-> filler, cardinality |-> min]
ObjectMaxCardinality(max, property, filler) ==
    [k |-> "ObjectMaxCardinality", n |-> property, es |-> filler, cardinality |-> max]
ObjectExactCardinality(cardinality, property, filler) ==
    [k |-> "ObjectExactCardinality", n |-> property, es |-> filler, cardinality |-> cardinality]

Datatype(iri) == [k |-> "Datatype", n |-> iri, es |-> <<>>]
DataIntersectionOf(ranges) == [k |-> "DataIntersectionOf", n |-> "", es |-> ranges]
DataUnionOf(ranges) == [k |-> "DataUnionOf", n |-> "", es |-> ranges]

EquivalentClasses(classes) == [t |-> "EquivalentClasses", ces |-> classes, p |-> "", inds |-> <<>>]
DisjointUnion(class, disjoint_classes) ==
    [t |-> "DisjointUnion", ces |-> disjoint_classes, p |-> "", inds |-> <<>>, class |-> class]
ObjectPropertyDomain(property, domain) ==
    [t |-> "ObjectPropertyDomain", ces |-> <<domain>>, p |-> property, inds |-> <<>>]
ObjectPropertyRange(property, range) ==
    [t |-> "ObjectPropertyRange", ces |-> <<range>>, p |-> property, inds |-> <<>>]
SubObjectPropertyOf(sub_property, super_property) ==
    [t |-> "SubObjectPropertyOf", ces |-> <<>>, p |-> "", inds |-> <<>>,
     properties |-> <<sub_property, super_property>>]
ReflexiveObjectProperty(property) ==
    [t |-> "ReflexiveObjectProperty", ces |-> <<>>, p |-> property, inds |-> <<>>]
TransitiveObjectProperty(property) ==
    [t |-> "TransitiveObjectProperty", ces |-> <<>>, p |-> property, inds |-> <<>>]
DataPropertyDomain(property, domain) ==
    [t |-> "DataPropertyDomain", ces |-> <<domain>>, p |-> property, inds |-> <<>>]
DataPropertyRange(property, range) ==
    [t |-> "DataPropertyRange", ces |-> <<>>, p |-> property, inds |-> <<>>, range |-> range]

\* the variant of Axiom an axiom belongs to
AxiomVariant(axiom) ==
    IF axiom.t \in {"SubClassOf", "EquivalentClasses", "DisjointClasses", "DisjointUnion"}
    THEN "Class"
    ELSE IF axiom.t \in {"SubObjectPropertyOf", "ObjectPropertyDomain", "ObjectPropertyRange",
                          "ReflexiveObjectProperty", "TransitiveObjectProperty"}
    THEN "ObjectProperty"
    ELSE IF axiom.t \in {"DataPropertyDomain", "DataPropertyRange"}
    THEN "DataProperty"
    ELSE "Assertion"

\* if !ok { violations.push(message) }
violation_unless(ok, message) == IF ok THEN <<>> ELSE <<message>>

\* for x in exprs { if !ok(x) { violations.push(message) } }
violation_for_each(exprs, ok(_), message) ==
    Flatten([x \in 1..Len(exprs) |-> violation_unless(ok(exprs[x]), message)])

(***************************************************************************)
(* EL profile.                                                             *)
(***************************************************************************)
\* variant: an intersection is accepted without looking at its operands
is_el_class_expression_shallow(expr) ==
    expr.k \in {"Class", "ObjectIntersectionOf", "ObjectSomeValuesFrom", "ObjectHasValue"}

RECURSIVE is_el_class_expression(_)
is_el_class_expression(expr) ==
    CASE expr.k = "Class" -> TRUE
      [] expr.k = "ObjectIntersectionOf" ->
            \A x \in 1..Len(expr.es) : is_el_class_expression(expr.es[x])
      [] expr.k = "ObjectSomeValuesFrom" -> is_el_class_expression(expr.es[1])
      [] expr.k = "ObjectHasValue" -> TRUE
      [] OTHER -> FALSE

is_el_object_property_expression(expr) ==
    PropertyVariant(expr) \in {"ObjectProperty", "InverseObjectProperty"}

check_el_class_axiom(axiom) ==
    CASE axiom.t = "SubClassOf" ->
            violation_unless(is_el_class_expression(axiom.ces[1]),
                             "SubClassOf axiom has non-EL subclass expression")
            \o violation_unless(is_el_class_expression(axiom.ces[2]),
                                "SubClassOf axiom has non-EL superclass expression")
      [] axiom.t = "EquivalentClasses" ->
            violation_for_each(axiom.ces, is_el_class_expression,
                               "EquivalentClasses axiom has non-EL class expression")
      [] axiom.t = "DisjointClasses" ->
            violation_for_each(axiom.ces, is_el_class_expression,
                               "DisjointClasses axiom has non-EL class expression")
      [] axiom.t = "DisjointUnion" ->
            violation_for_each(axiom.ces, is_el_class_expression,
                               "DisjointUnion axiom has non-EL class expression")

check_el_object_property_axiom(axiom) ==
    CASE axiom.t = "SubObjectPropertyOf" ->
            violation_unless(is_el_object_property_expression(axiom.properties[1]),
                             "SubObjectPropertyOf axiom has non-EL sub-property expression")
            \o violation_unless(is_el_object_property_expression(axiom.properties[2]),
                                "SubObjectPropertyOf axiom has non-EL super-property expression")
      [] axiom.t = "ObjectPropertyDomain" ->
            violation_unless(is_el_object_property_expression(axiom.p),
                             "ObjectPropertyDomain axiom has non-EL property expression")
            \o violation_unless(is_el_class_expression(axiom.ces[1]),
                                "ObjectPropertyDomain axiom has non-EL domain expression")
      [] axiom.t = "ObjectPropertyRange" ->
            violation_unless(is_el_object_property_expression(axiom.p),
                             "ObjectPropertyRange axiom has non-EL property expression")
            \o violation_unless(is_el_class_expression(axiom.ces[1]),
                                "ObjectPropertyRange axiom has non-EL range expression")
      [] axiom.t = "ReflexiveObjectProperty" ->
            violation_unless(is_el_object_property_expression(axiom.p),
                             "ReflexiveObjectProperty axiom has non-EL property expression")
      [] axiom.t = "TransitiveObjectProperty" ->
            violation_unless(is_el_object_property_expression(axiom.p),
                             "TransitiveObjectProperty axiom has non-EL property expression")

check_el_data_property_axiom(axiom) ==
    CASE axiom.t = "DataPropertyDomain" ->
            violation_unless(is_el_class_expression(axiom.ces[1]),
                             "DataPropertyDomain axiom has non-EL domain expression")
      [] axiom.t = "DataPropertyRange" ->
            violation_unless(axiom.range.k = "Datatype",
                             "DataPropertyRange axiom has non-EL range expression")

check_el_assertion(assertion) ==
    CASE assertion.t = "ClassAssertion" ->
            violation_unless(is_el_class_expression(assertion.ces[1]),
                             "ClassAssertion has non-EL class expression")
      [] assertion.t = "ObjectPropertyAssertion" ->
            violation_unless(is_el_object_property_expression(assertion.p),
                             "ObjectPropertyAssertion has non-EL property expression")
      [] OTHER -> <<>>

\* the violations one axiom adds under the EL profile
check_el_axiom(axiom) ==
    CASE AxiomVariant(axiom) = "Class" -> check_el_class_axiom(axiom)
      [] AxiomVariant(axiom) = "ObjectProperty" -> check_el_object_property_axiom(axiom)
      [] AxiomVariant(axiom) = "DataProperty" -> check_el_data_property_axiom(axiom)
      [] AxiomVariant(axiom) = "Assertion" -> check_el_assertion(axiom)

check_el_profile(onto) ==
    Flatten([a \in 1..Len(onto) |-> check_el_axiom(onto[a])])

(***************************************************************************)
(* RL profile.                                                             *)
(***************************************************************************)
is_rl_object_property_expression(expr) ==
    PropertyVariant(expr) \in {"ObjectProperty", "InverseObjectProperty"}

\* the general RL test: fillers, operands of complements
RECURSIVE is_rl_class_expression(_)
is_rl_class_expression(expr) ==
    CASE expr.k = "Class" -> TRUE
      [] expr.k \in {"ObjectIntersectionOf", "ObjectUnionOf"} ->
            \A x \in 1..Len(expr.es) : is_rl_class_expression(expr.es[x])
      [] expr.k = "ObjectComplementOf" -> is_rl_class_expression(expr.es[1])
      [] expr.k = "ObjectOneOf" -> expr.individuals # <<>>
      [] expr.k \in {"ObjectSomeValuesFrom", "ObjectAllValuesFrom"} ->
            is_rl_object_property_expression(expr.n) /\ is_rl_class_expression(expr.es[1])
      [] expr.k \in {"ObjectHasValue", "ObjectHasSelf"} ->
            is_rl_object_property_expression(expr.n)
      [] expr.k \in {"ObjectMinCardinality", "ObjectMaxCardinality", "ObjectExactCardinality"} ->
            /\ expr.cardinality <= 1
            /\ is_rl_object_property_expression(expr.n)
            /\ \A x \in 1..Len(expr.es) : is_rl_class_expression(expr.es[x])
      [] OTHER -> FALSE

RECURSIVE is_rl_subclass_expression(_)
is_rl_subclass_expression(expr) ==
    CASE expr.k = "Class" -> TRUE
      [] expr.k \in {"ObjectIntersectionOf", "ObjectUnionOf"} ->
            \A x \in 1..Len(expr.es) : is_rl_subclass_expression(expr.es[x])
      [] expr.k = "ObjectOneOf" -> expr.individuals # <<>>
      [] expr.k = "ObjectSomeValuesFrom" ->
            is_rl_object_property_expression(expr.n) /\ is_rl_class_expression(expr.es[1])
      [] expr.k = "ObjectHasValue" -> is_rl_object_property_expression(expr.n)
      [] OTHER -> FALSE

RECURSIVE is_rl_superclass_expression(_)
is_rl_superclass_expression(expr) ==
    CASE expr.k = "Class" -> TRUE
      [] expr.k = "ObjectIntersectionOf" ->
            \A x \in 1..Len(expr.es) : is_rl_superclass_expression(expr.es[x])
      [] expr.k = "ObjectComplementOf" -> is_rl_class_expression(expr.es[1])
      [] expr.k \in {"ObjectSomeValuesFrom", "ObjectAllValuesFrom"} ->
            is_rl_object_property_expression(expr.n) /\ is_rl_class_expression(expr.es[1])
      [] expr.k = "ObjectHasValue" -> is_rl_object_property_expression(expr.n)
      [] expr.k = "ObjectMaxCardinality" ->
            /\ expr.cardinality <= 1
            /\ is_rl_object_property_expression(expr.n)
            /\ \A x \in 1..Len(expr.es) : is_rl_class_expression(expr.es[x])
      [] OTHER -> FALSE

RECURSIVE is_rl_equivalent_expression(_)
is_rl_equivalent_expression(expr) ==
    CASE expr.k = "Class" -> TRUE
      [] expr.k = "ObjectIntersectionOf" ->
            \A x \in 1..Len(expr.es) : is_rl_equivalent_expression(expr.es[x])
      [] expr.k = "ObjectHasValue" -> is_rl_object_property_expression(expr.n)
      [] OTHER -> FALSE

\* the test of the operands of DisjointClasses: properties are not looked at
RECURSIVE is_rl_valid_class_expression(_)
is_rl_valid_class_expression(expr) ==
    CASE expr.k = "Class" -> TRUE
      [] expr.k \in {"ObjectIntersectionOf", "ObjectUnionOf"} ->
            \A x \in 1..Len(expr.es) : is_rl_valid_class_expression(expr.es[x])
      [] expr.k = "ObjectComplementOf" -> is_rl_valid_class_expression(expr.es[1])
      [] expr.k = "ObjectOneOf" -> expr.individuals # <<>>
      [] expr.k \in {"ObjectSomeValuesFrom", "ObjectAllValuesFrom"} ->
            is_rl_valid_class_expression(expr.es[1])
      [] expr.k \in {"ObjectHasValue", "ObjectHasSelf"} -> TRUE
      [] expr.k \in {"ObjectMinCardinality", "ObjectMaxCardinality", "ObjectExactCardinality"} ->
            /\ expr.cardinality <= 1
            /\ \A x \in 1..Len(expr.es) : is_rl_valid_class_expression(expr.es[x])
      [] OTHER -> FALSE

\* String::contains
StrContains(s, pattern) ==
    \E x \in 1..(Len(s) - Len(pattern) + 1) : SubSeq(s, x, x + Len(pattern) - 1) = pattern

\* defined in the source and called from nowhere
RECURSIVE is_rl_data_range(_)
is_rl_data_range(range) ==
    CASE range.k = "Datatype" ->
            ~StrContains(range.n, "owl:real") /\ ~StrContains(range.n, "owl:rational")
      [] range.k = "DataIntersectionOf" ->
            \A x \in 1..Len(range.es) : is_rl_data_range(range.es[x])
      [] OTHER -> FALSE

check_rl_class_axiom(axiom) ==
    CASE axiom.t = "SubClassOf" ->
            violation_unless(is_rl_subclass_expression(axiom.ces[1]),
                             "SubClassOf axiom has non-RL subclass expression")
            \o violation_unless(is_rl_superclass_expression(axiom.ces[2]),
                                "SubClassOf axiom has non-RL superclass expression")
      [] axiom.t = "EquivalentClasses" ->
            violation_for_each(axiom.ces, is_rl_equivalent_expression,
                               "EquivalentClasses axiom has non-RL class expression")
      [] axiom.t = "DisjointClasses" ->
            violation_for_each(axiom.ces, is_rl_valid_class_expression,
                               "DisjointClasses axiom has non-RL class expression")
      [] axiom.t = "DisjointUnion" ->
            <<"DisjointUnion axiom is not allowed in RL profile">>

check_rl_object_property_axiom(axiom) ==
    CASE axiom.t = "ReflexiveObjectProperty" ->
            <<"ReflexiveObjectProperty axiom is not allowed in RL profile">>
      [] OTHER -> <<>>

\* all data property axioms are allowed in RL: the body is empty
check_rl_data_property_axiom(axiom) == <<>>

check_rl_assertion(assertion) ==
    CASE assertion.t = "ClassAssertion" ->
            violation_unless(is_rl_superclass_expression(assertion.ces[1]),
                             "ClassAssertion has non-RL class expression")
      [] OTHER -> <<>>

\* the violations one axiom adds under the RL profile
check_rl_axiom(axiom) ==
    CASE AxiomVariant(axiom) = "Class" -> check_rl_class_axiom(axiom)
      [] AxiomVariant(axiom) = "ObjectProperty" -> check_rl_object_property_axiom(axiom)
      [] AxiomVariant(axiom) = "DataProperty" -> check_rl_data_property_axiom(axiom)
      [] AxiomVariant(axiom) = "Assertion" -> check_rl_assertion(axiom)

check_rl_profile(onto) ==
    Flatten([a \in 1..Len(onto) |-> check_rl_axiom(onto[a])])

\* the match on the profile: the EL, RL and Full arms (QL is not drawn)
profile_violations(onto, profile) ==
    CASE profile = "EL" -> check_el_profile(onto)
      [] profile = "RL" -> check_rl_profile(onto)
      [] profile = "Full" -> <<>>

ProfileCheckResult(profile, violations) ==
    [profile |-> profile, conforms |-> violations = <<>>, violations |-> violations]

check_profile_compliance(onto, profile) ==
    ProfileCheckResult(profile, profile_violations(onto, profile))

(***************************************************************************)
(* The ontologies handed to the profile checker: class expressions nested  *)
(* up to MaxDepth constructors deep, put in every position of an axiom     *)
(* that holds a class expression, and axioms taken as they are (on        *)
(* properties, on data ranges, on given class expressions); one axiom, or  *)
(* two of the axioms taken as they are.                                    *)
(***************************************************************************)
ProfileAtoms ==
    { Class("A"),
      ObjectOneOf(<<Named("i")>>),
      ObjectOneOf(<<>>),
      ObjectHasValue(ObjectProperty("P"), Named("i")),
      ObjectHasSelf(ObjectProperty("P")),
      ObjectMaxCardinality(1, ObjectProperty("P"), <<>>),
      ObjectMaxCardinality(2, ObjectProperty("P"), <<>>),
      ObjectMinCardinality(2, ObjectProperty("P"), <<>>) }

\* the expressions with e as a direct operand
Wrapped(e) ==
    { ObjectIntersectionOf(<<e, Class("B")>>),
      ObjectUnionOf(<<Class("B"), e>>),
      ObjectComplementOf(e),
      ObjectSomeValuesFrom(ObjectProperty("P"), e),
      ObjectSomeValuesFrom(ObjectPropertyChain("P Q"), e),
      ObjectAllValuesFrom(ObjectProperty("P"), e),
      ObjectMinCardinality(1, ObjectProperty("P"), <<e>>),
      ObjectMinCardinality(2, ObjectProperty("P"), <<e>>),
      ObjectMaxCardinality(1, ObjectProperty("P"), <<e>>),
      ObjectMaxCardinality(2, ObjectProperty("P"), <<e>>),
      ObjectExactCardinality(1, ObjectProperty("P"), <<e>>),
      ObjectExactCardinality(2, ObjectProperty("P"), <<e>>) }

RECURSIVE ProfileExpressions(_)
ProfileExpressions(depth) ==
    IF depth = 0 THEN ProfileAtoms
    ELSE ProfileExpressions(depth - 1)
         \cup UNION { Wrapped(e) : e \in ProfileExpressions(depth - 1) }

\* the axioms with e in a position that holds a class expression
AxiomsOn(e) ==
    { SubClassOf(e, Class("A")),
      SubClassOf(Class("A"), e),
      EquivalentClasses(<<Class("A"), e>>),
      DisjointClasses(<<e, Class("A")>>),
      DisjointUnion("A", <<e, Class("B")>>),
      ObjectPropertyDomain(ObjectProperty("P"), e),
      ObjectPropertyRange(ObjectProperty("P"), e),
      DataPropertyDomain("D", e),
      ClassAssertion(e, Named("i")) }

PlainAxioms ==
    { SubObjectPropertyOf(ObjectPropertyChain("P Q"), ObjectProperty("P")),
      SubObjectPropertyOf(InverseObjectProperty("P"), ObjectProperty("Q")),
      ReflexiveObjectProperty(ObjectProperty("P")),
      TransitiveObjectProperty(ObjectProperty("P")),
      DataPropertyRange("D", Datatype("http://www.w3.org/2001/XMLSchema#decimal")),
      DataPropertyRange("D", Datatype("owl:real")),
      DataPropertyRange("D", Datatype("owl:rational")),
      DataPropertyRange("D", Datatype("http://www.w3.org/2002/07/owl#real")),
      DataPropertyRange("D", DataIntersectionOf(<<Datatype("owl:real"),
                                                  Datatype("http://www.w3.org/2001/XMLSchema#decimal")>>)),
      DataPropertyRange("D", DataUnionOf(<<Datatype("owl:rational")>>)),
      ObjectPropertyAssertion(ObjectProperty("P"), Named("i"), Named("j")),
      SameIndividual(<<Named("i"), Named("j")>>),
      SubClassOf(Class("A"), Class("B")),
      SubClassOf(Class("A"),
                 ObjectIntersectionOf(<<ObjectUnionOf(<<Class("B"), Class("C")>>),
                                        ObjectOneOf(<<Named("i"), Named("j")>>)>>)),
      SubClassOf(Class("A"), ObjectMaxCardinality(0, ObjectProperty("P"), <<Class("B")>>)) }

ProfileOntologies ==
    {<<>>}
    \cup { <<a>> : a \in UNION { AxiomsOn(e) : e \in ProfileExpressions(MaxDepth) } }
    \cup { <<a>> : a \in PlainAxioms }
    \cup { <<a, b>> : a \in PlainAxioms, b \in PlainAxioms }

Profiles == {"EL", "RL", "Full"}

InitProfile ==
    /\ ontology \in ProfileOntologies
    /\ graph = NewGraph
    /\ ret = NoCall
    /\ pc = "idle"
    /\ iter = 0
    /\ calls = 0
    /\ task = NoTask
    /\ cache = NoCache

\* check_profile_compliance(&ontology, profile): the result is kept in ret
Checked(profile, result) ==
    ret' = [op |-> "check_profile_compliance", args |-> <<profile>>, val |-> result]

CheckProfileCompliance ==
    /\ \E profile \in Profiles :
        Checked(profile, check_profile_compliance(ontology, profile))
    /\ UNCHANGED <<ontology, graph, pc, iter, calls, task, cache>>

NextProfile == CheckProfileCompliance

SpecProfile == InitProfile /\ [][NextProfile]_vars

(***************************************************************************)
(* The async methods of api::Reasoner (src/src/api.rs): is_consistent_async,*)
(* classify_async and realize_async.  Each moves the tableau reasoner out  *)
(* of the Reasoner with mem::replace, leaving TableauReasoner::new(        *)
(* Ontology::default()) in its place, hands it to a blocking task and      *)
(* awaits the task.  The steps: the call up to the await, the task         *)
(* running its closure on a worker or failing (the closure panics, or the  *)
(* runtime shuts down before it runs), the await returning, and the        *)
(* caller dropping the future while it awaits (select!, timeout).          *)
(* task.handle tells what became of the JoinHandle.                        *)
(***************************************************************************)
AsyncOps == {"is_consistent", "classify", "realize"}

\* let mut reasoner = mem::replace(&mut self.tableau_reasoner, ...);
\* spawn_blocking(move || ...).  task holds one task: a call begins once
\* the task of a dropped future has ended.
BeginAsync ==
    /\ pc = "idle"
    /\ calls < MaxCalls
    /\ task.state \in {"none", "finished", "failed"}
    /\ \E op \in AsyncOps :
        task' = [state |-> "spawned", handle |-> "awaited", op |-> op,
                 reasoner |-> [ontology |-> ontology, graph |-> graph],
                 result |-> FALSE]
    /\ ontology' = <<>>
    /\ graph' = NewGraph
    /\ pc' = "awaiting"
    /\ UNCHANGED <<ret, iter, calls, cache>>

\* the closure ran: (reasoner, result)
Ran(r) ==
    task' = [task EXCEPT !.state = "finished",
                         !.reasoner = [ontology |-> task.reasoner.ontology, graph |-> r.graph],
                         !.result = r.result]

\* the worker runs the closure, also when the JoinHandle was dropped
TaskRuns ==
    /\ task.state = "spawned"
    /\ \/ /\ task.op = "is_consistent"
          /\ Ran(is_consistent(task.reasoner.ontology, task.reasoner.graph))
       \/ /\ task.op = "classify"
          /\ Ran(classify(task.reasoner.ontology, task.reasoner.graph))
       \/ /\ task.op = "realize"
          /\ Ran(realize(task.reasoner.ontology, task.reasoner.graph))
    /\ UNCHANGED <<ontology, graph, ret, pc, iter, calls, cache>>

\* the task ends with a JoinError: the reasoner moved into it is dropped
TaskFails ==
    /\ task.state = "spawned"
    /\ task' = [task EXCEPT !.state = "failed"]
    /\ UNCHANGED <<ontology, graph, ret, pc, iter, calls, cache>>

\* the value of unwrap_or_else(|_| (TableauReasoner::new(Ontology::default()), ..))
FailedResult(op) ==
    CASE op = "is_consistent" -> FALSE
      [] op = "classify" -> NewClassHierarchy
      [] op = "realize" -> EmptyMap

\* .await returns; self.tableau_reasoner = result.0; result.1
AwaitReturns ==
    /\ pc = "awaiting"
    /\ \/ /\ task.state = "finished"
          /\ ontology' = task.reasoner.ontology
          /\ graph' = task.reasoner.graph
          /\ ret' = [op |-> task.op \o "_async", args |-> <<>>, val |-> task.result]
       \/ /\ task.state = "failed"
          /\ ontology' = <<>>
          /\ graph' = NewGraph
          /\ ret' = [op |-> task.op \o "_async", args |-> <<>>, val |-> FailedResult(task.op)]
    /\ task' = [task EXCEPT !.handle = "joined"]
    /\ pc' = "idle"
    /\ calls' = calls + 1
    /\ UNCHANGED <<iter, cache>>

\* the caller drops the future at its await point: nothing after the await
\* runs, the JoinHandle is dropped and the task is detached
DropFuture ==
    /\ pc = "awaiting"
    /\ task' = [task EXCEPT !.handle = "dropped"]
    /\ ret' = NoCall
    /\ pc' = "idle"
    /\ calls' = calls + 1
    /\ UNCHANGED <<ontology, graph, iter, cache>>

NextAsync ==
    BeginAsync \/ TaskRuns \/ TaskFails \/ AwaitReturns \/ DropFuture \/ IsConsistent

SpecAsync == Init /\ [][NextAsync]_vars

(***************************************************************************)
(* A client of the public graph and of the public rules, as the unit      *)
(* tests of reasoner.rs are: it calls get_or_create_node, add_concept and  *)
(* add_role on reasoner.graph, initialize, and the four rules, one call a  *)
(* step, at most MaxSteps calls.  ret keeps the last call and, for a rule, *)
(* the bool it returned.                                                   *)
(***************************************************************************)
RuleIndividuals == {Named("i"), Anonymous("_:fresh1")}

RuleConcepts ==
    { ObjectSomeValuesFrom("P", Class("A")),
      ObjectSomeValuesFrom("P", ObjectComplementOf(Class("A"))),
      ObjectAllValuesFrom("P", Class("B")),
      ObjectIntersectionOf(<<Class("B"), ObjectUnionOf(<<Class("A"), Class("B")>>)>>) }

RuleOntologies ==
    { <<>>,
      <<ClassAssertion(ObjectSomeValuesFrom("P", Class("A")), Named("i")),
        ClassAssertion(Class("B"), Anonymous("_:fresh1"))>>,
      <<ObjectPropertyAssertion("P", Named("i"), Named("j")),
        ClassAssertion(ObjectUnionOf(<<Class("A"), Class("B")>>), Named("j")),
        ClassAssertion(ObjectAllValuesFrom("P", Class("A")), Named("i"))>> }

InitRules ==
    /\ ontology \in RuleOntologies
    /\ graph = NewGraph
    /\ ret = NoCall
    /\ pc = "idle"
    /\ iter = 0
    /\ calls = 0
    /\ task = NoTask
    /\ cache = NoCache

\* a call on the graph that returns nothing the client keeps
Called(op, args, g) ==
    /\ graph' = g
    /\ ret' = [op |-> op, args |-> args, val |-> FALSE]

\* a rule returned r: the graph it leaves and whether it added anything
Applied(op, r) ==
    /\ graph' = r.graph
    /\ ret' = [op |-> op, args |-> <<>>, val |-> r.added]

GetOrCreateNode ==
    /\ calls < MaxSteps
    /\ calls' = calls + 1
    /\ \E individual \in RuleIndividuals :
        Called("get_or_create_node", <<individual>>, get_or_create_node(graph, individual))
    /\ UNCHANGED <<ontology, pc, iter, task, cache>>

AddConcept ==
    /\ calls < MaxSteps
    /\ calls' = calls + 1
    /\ \E individual \in RuleIndividuals, concept \in RuleConcepts :
        Called("add_concept", <<individual, concept>>, add_concept(graph, individual, concept))
    /\ UNCHANGED <<ontology, pc, iter, task, cache>>

AddRole ==
    /\ calls < MaxSteps
    /\ calls' = calls + 1
    /\ \E source \in RuleIndividuals, target \in RuleIndividuals :
        Called("add_role", <<source, "P", target>>, add_role(graph, source, "P", target))
    /\ UNCHANGED <<ontology, pc, iter, task, cache>>

Initialize ==
    /\ calls < MaxSteps
    /\ calls' = calls + 1
    /\ Called("initialize", <<>>, initialize(ontology, graph))
    /\ UNCHANGED <<ontology, pc, iter, task, cache>>

ApplyConjunctionRule ==
    /\ calls < MaxSteps
    /\ calls' = calls + 1
    /\ Applied("apply_conjunction_rule", apply_conjunction_rule(graph))
    /\ UNCHANGED <<ontology, pc, iter, task, cache>>

ApplyDisjunctionRule ==
    /\ calls < MaxSteps
    /\ calls' = calls + 1
    /\ Applied("apply_disjunction_rule", apply_disjunction_rule(graph))
    /\ UNCHANGED <<ontology, pc, iter, task, cache>>

ApplyExistentialRule ==
    /\ calls < MaxSteps
    /\ calls' = calls + 1
    /\ Applied("apply_existential_rule", apply_existential_rule(graph))
    /\ UNCHANGED <<ontology, pc, iter, task, cache>>

ApplyUniversalRule ==
    /\ calls < MaxSteps
    /\ calls' = calls + 1
    /\ Applied("apply_universal_rule", apply_universal_rule(graph))
    /\ UNCHANGED <<ontology, pc, iter, task, cache>>

NextRules ==
    \/ GetOrCreateNode \/ AddConcept \/ AddRole \/ Initialize
    \/ ApplyConjunctionRule \/ ApplyDisjunctionRule
    \/ ApplyExistentialRule \/ ApplyUniversalRule

SpecRules == InitRules /\ [][NextRules]_vars

(***************************************************************************)
(* ReasonerCache (src/src/cache.rs).  Each of the three caches is a        *)
(* HashMap<u64, _>; it is held as the sequence of its entries [key, value] *)
(* in the order the keys were first inserted.  That order is bookkeeping:  *)
(* a HashMap keeps none, and the order of its keys() is unspecified (the   *)
(* hasher of the map is randomly seeded), so keys().next() is any key.     *)
(***************************************************************************)
\* the ontologies of the client of the cache
CacheOntologies ==
    << <<ClassAssertion(Class("A"), Named("i"))>>,
       <<ClassAssertion(Class("A"), Named("i")),
         ClassAssertion(ObjectComplementOf(Class("A")), Named("i"))>>,
       <<SubClassOf(Class("A"), Class("B")),
         ClassAssertion(ObjectUnionOf(<<Class("A"), Class("B")>>), Named("i"))>> >>

\* the u64 of DefaultHasher for the ontology: a number that differs between
\* the ontologies of the client (no two of them collide)
compute_ontology_hash(onto) ==
    CHOOSE x \in 1..Len(CacheOntologies) : CacheOntologies[x] = onto

\* ReasonerCache::new(config)
NewReasonerCache(config) ==
    [consistency_cache |-> <<>>, classification_cache |-> <<>>,
     realization_cache |-> <<>>, config |-> config]

\* index of the entry of the key, 0 when the map has none
KeyIndex(entries, key) ==
    IF \E x \in 1..Len(entries) : entries[x].key = key
    THEN CHOOSE x \in 1..Len(entries) : entries[x].key = key
    ELSE 0

\* HashMap::insert: the value of an existing key is replaced
hashmap_insert_at(entries, x, key, value) ==
    IF x # 0 THEN [entries EXCEPT ![x].value = value]
    ELSE Append(entries, [key |-> key, value |-> value])

hashmap_insert(entries, key, value) ==
    hashmap_insert_at(entries, KeyIndex(entries, key), key, value)

\* HashMap::get: <<>> stands for None, <<v>> for Some(v)
hashmap_get_at(entries, x) == IF x = 0 THEN <<>> ELSE <<entries[x].value>>

hashmap_get(entries, key) == hashmap_get_at(entries, KeyIndex(entries, key))

\* if len > max_cache_size { remove(keys().next()) }: the maps the store can
\* leave, one for every key that keys().next() can yield
evicted(entries) == { RemoveAt(entries, x) : x \in 1..Len(entries) }

limit_cache_size(entries, max_cache_size) ==
    IF Len(entries) > max_cache_size THEN evicted(entries) ELSE {entries}

\* the maps a store_* call can leave in place of entries
store(config, entries, key, value) ==
    IF ~config.enabled THEN {entries}
    ELSE limit_cache_size(hashmap_insert(entries, key, value), config.max_cache_size)

\* the Option a get_* call returns
get(config, entries, key) ==
    IF ~config.enabled THEN <<>> ELSE hashmap_get(entries, key)

InitCache ==
    /\ ontology = <<>>
    /\ graph = NewGraph
    /\ ret = NoCall
    /\ pc = "idle"
    /\ iter = 0
    /\ calls = 0
    /\ task = NoTask
    /\ \E enabled \in BOOLEAN, max_cache_size \in 0..MaxCacheSize :
        cache = NewReasonerCache([enabled |-> enabled, max_cache_size |-> max_cache_size])

\* the call and its arguments are kept in ret; a store returns nothing
StoreReturns(op, onto, result) ==
    ret' = [op |-> op, args |-> <<onto, result>>, val |-> FALSE]

StoreConsistency ==
    /\ calls < MaxSteps
    /\ calls' = calls + 1
    /\ \E x \in 1..Len(CacheOntologies), result \in BOOLEAN :
        /\ \E entries \in store(cache.config, cache.consistency_cache,
                                compute_ontology_hash(CacheOntologies[x]), result) :
                cache' = [cache EXCEPT !.consistency_cache = entries]
        /\ StoreReturns("store_consistency", CacheOntologies[x], result)
    /\ UNCHANGED <<ontology, graph, pc, iter, task>>

StoreClassification ==
    /\ calls < MaxSteps
    /\ calls' = calls + 1
    /\ \E x \in 1..Len(CacheOntologies) :
        /\ \E entries \in store(cache.config, cache.classification_cache,
                                compute_ontology_hash(CacheOntologies[x]), NewClassHierarchy) :
                cache' = [cache EXCEPT !.classification_cache = entries]
        /\ StoreReturns("store_classification", CacheOntologies[x], NewClassHierarchy)
    /\ UNCHANGED <<ontology, graph, pc, iter, task>>

StoreRealization ==
    /\ calls < MaxSteps
    /\ calls' = calls + 1
    /\ \E x \in 1..Len(CacheOntologies) :
        /\ \E entries \in store(cache.config, cache.realization_cache,
                                compute_ontology_hash(CacheOntologies[x]), EmptyMap) :
                cache' = [cache EXCEPT !.realization_cache = entries]
        /\ StoreReturns("store_realization", CacheOntologies[x], EmptyMap)
    /\ UNCHANGED <<ontology, graph, pc, iter, task>>

GetReturns(op, onto, found) ==
    ret' = [op |-> op, args |-> <<onto>>, val |-> found]

GetConsistency ==
    /\ calls < MaxSteps
    /\ calls' = calls + 1
    /\ \E x \in 1..Len(CacheOntologies) :
        GetReturns("get_consistency", CacheOntologies[x],
                   get(cache.config, cache.consistency_cache,
                       compute_ontology_hash(CacheOntologies[x])))
    /\ UNCHANGED <<ontology, graph, pc, iter, task, cache>>

GetClassification ==
    /\ calls < MaxSteps
    /\ calls' = calls + 1
    /\ \E x \in 1..Len(CacheOntologies) :
        GetReturns("get_classification", CacheOntologies[x],
                   get(cache.config, cache.classification_cache,
                       compute_ontology_hash(CacheOntologies[x])))
    /\ UNCHANGED <<ontology, graph, pc, iter, task, cache>>

GetRealization ==
    /\ calls < MaxSteps
    /\ calls' = calls + 1
    /\ \E x \in 1..Len(CacheOntologies) :
        GetReturns("get_realization", CacheOntologies[x],
                   get(cache.config, cache.realization_cache,
                       compute_ontology_hash(CacheOntologies[x])))
    /\ UNCHANGED <<ontology, graph, pc, iter, task, cache>>

NextCache ==
    \/ StoreConsistency \/ StoreClassification \/ StoreRealization
    \/ GetConsistency \/ GetClassification \/ GetRealization

SpecCache == InitCache /\ [][NextCache]_vars

(***************************************************************************)
(* Properties.                                                             *)
(***************************************************************************)
\* the verdict of a freshly constructed reasoner on the ontology
FreshConsistent(onto) == is_consistent(onto, NewGraph).result

\* ClassAssertion(E, i) and ClassAssertion(ObjectComplementOf(E), i) are both axioms
ComplementPairAsserted(onto) ==
    \E a, b \in 1..Len(onto) :
        /\ onto[a].t = "ClassAssertion"
        /\ onto[b].t = "ClassAssertion"
        /\ onto[a].inds = onto[b].inds
        /\ onto[b].ces[1] = ObjectComplementOf(onto[a].ces[1])

\* C1: an ontology that asserts a class expression E and its complement of
\* the same individual is reported inconsistent by is_consistent.
C1_ComplementPairInconsistent ==
    (ret.op = "is_consistent" /\ ComplementPairAsserted(ontology)) => ret.val = FALSE

C1_Witness ==
    /\ ret.op = "is_consistent"
    /\ ComplementPairAsserted(ontology)
    /\ Contains(ontology, ClassAssertion(ObjectUnionOf(<<Class("A"), Class("B")>>), Named("i")))
    /\ ret.val = FALSE

\* SubClassOf axioms between named classes lead from c to d
RECURSIVE SubClassChain(_, _, _, _)
SubClassChain(onto, c, d, fuel) ==
    \/ Contains(onto, SubClassOf(Class(c), Class(d)))
    \/ /\ fuel > 0
       /\ \E m \in ClassNames :
            /\ Contains(onto, SubClassOf(Class(c), Class(m)))
            /\ SubClassChain(onto, m, d, fuel - 1)

\* C2: with ClassAssertion(C, i) and a chain of SubClassOf axioms between
\* named classes from C to D, is_instance_of(i, D) returns true.
C2_SubClassChainInstance ==
    (/\ ret.op = "is_instance_of"
     /\ \E c \in ClassNames :
            /\ Contains(ontology, ClassAssertion(Class(c), ret.args[1]))
            /\ SubClassChain(ontology, c, ret.args[2], Cardinality(ClassNames)))
    => ret.val = TRUE

\* value is listed under key in a class -> Vec<Class> map
Listed(map, key, value) == key \in DOMAIN map /\ Contains(map[key], value)

\* C3: for a consistent ontology with SubClassOf(A, B) between distinct
\* named classes, classify lists B among the superclasses of A and A among
\* the subclasses of B.
C3_ClassifyLinksSubClassOf ==
    (ret.op = "classify" /\ FreshConsistent(ontology)) =>
        \A a, b \in ClassNames :
            (a # b /\ Contains(ontology, SubClassOf(Class(a), Class(b)))) =>
                /\ Listed(ret.val.superclasses, a, b)
                /\ Listed(ret.val.subclasses, b, a)

\* every axiom is a SubClassOf between two distinct named classes
OnlyNamedSubClassOf(onto) ==
    \A a \in 1..Len(onto) :
        /\ onto[a].t = "SubClassOf"
        /\ onto[a].ces[1].k = "Class"
        /\ onto[a].ces[2].k = "Class"
        /\ onto[a].ces[1] # onto[a].ces[2]

\* C4: for an ontology of SubClassOf axioms between distinct named classes
\* only, classify returns a hierarchy whose two maps are empty.
C4_SubClassOnlyHierarchyEmpty ==
    (ret.op = "classify" /\ OnlyNamedSubClassOf(ontology)) =>
        /\ ret.val.subclasses = EmptyMap
        /\ ret.val.superclasses = EmptyMap

C4_Witness ==
    /\ ret.op = "classify"
    /\ OnlyNamedSubClassOf(ontology)
    /\ Len(ontology) >= 2
    /\ ret.val = NewClassHierarchy

\* two classes of one DisjointClasses axiom are asserted of one individual
DisjointShareMember(onto) ==
    \E d, a, b \in 1..Len(onto) :
        /\ onto[d].t = "DisjointClasses"
        /\ onto[a].t = "ClassAssertion"
        /\ onto[b].t = "ClassAssertion"
        /\ onto[a].inds = onto[b].inds
        /\ \E x, y \in 1..Len(onto[d].ces) :
            /\ x # y
            /\ onto[d].ces[x] = onto[a].ces[1]
            /\ onto[d].ces[y] = onto[b].ces[1]

\* C5: an ontology with DisjointClasses(S, E), ClassAssertion(S, i) and
\* ClassAssertion(E, i) is reported inconsistent by is_consistent.
C5_DisjointShareMemberInconsistent ==
    (ret.op = "is_consistent" /\ DisjointShareMember(ontology)) => ret.val = FALSE

\* the axioms of the ontology are exactly those of the set
SameAxioms(onto, axioms) ==
    /\ Len(onto) = Cardinality(axioms)
    /\ {onto[a] : a \in 1..Len(onto)} = axioms

UnionWithComplementOfFirst ==
    { ClassAssertion(ObjectUnionOf(<<Class("A"), Class("B")>>), Named("i")),
      ClassAssertion(ObjectComplementOf(Class("A")), Named("i")) }

\* C6: when the first disjunct of a UnionOf clashes the next one is tried:
\* the ontology ClassAssertion(UnionOf(A, B), i), ClassAssertion(ComplementOf(A), i)
\* is reported consistent.
C6_UnionBacktracks ==
    (ret.op = "is_consistent" /\ SameAxioms(ontology, UnionWithComplementOfFirst)) => ret.val = TRUE

\* the ontologies made of a part of the axioms, their order kept
RECURSIVE SubOntologies(_)
SubOntologies(onto) ==
    IF onto = <<>> THEN {<<>>}
    ELSE LET rest == SubOntologies(Tail(onto))
         IN  rest \cup {<<Head(onto)>> \o r : r \in rest}

\* C7: consistency is monotone in the axiom set: when is_consistent returns
\* true for an ontology, it returns true for every ontology made of a part
\* of its axioms.
C7_ConsistencyMonotone ==
    (ret.op = "is_consistent" /\ ret.val = TRUE) =>
        \A sub \in SubOntologies(ontology) : FreshConsistent(sub)

\* C8: every is_consistent call on a reasoner, whatever calls preceded it,
\* returns what a freshly constructed reasoner returns on the same ontology.
C8_ConsistencyRepeatable ==
    ret.op = "is_consistent" => ret.val = FreshConsistent(ontology)

C8_Witness ==
    /\ ret.op = "is_consistent"
    /\ calls >= 2
    /\ graph.next_fresh_id > 0
    /\ ret.val = FreshConsistent(ontology)

CyclicExistential ==
    << SubClassOf(Class("A"), ObjectSomeValuesFrom("P", Class("A"))),
       ClassAssertion(Class("A"), Named("i")) >>

\* C9: the expansion loop of every is_consistent call ends: it leaves the
\* loop after fewer than MaxIter iterations, so it is never cut short by
\* the cap; for the cyclic existential axiom
\* SubClassOf(A, ObjectSomeValuesFrom(P, A)) with ClassAssertion(A, i) the
\* call returns true.
C9_IsConsistentTerminates ==
    /\ pc = "loop" => iter < MaxIter
    /\ (ret.op = "is_consistent" /\ ontology = CyclicExistential) => ret.val = TRUE

C9_Witness ==
    /\ pc = "idle"
    /\ ret.op = "is_consistent"
    /\ ontology = CyclicExistential
    /\ ret.val = TRUE

\* C10: when the ontology is inconsistent, classify returns the empty
\* hierarchy and realize returns the empty map.
C10_InconsistentGivesEmpty ==
    /\ (ret.op = "classify" /\ ~FreshConsistent(ontology)) => ret.val = NewClassHierarchy
    /\ (ret.op = "realize" /\ ~FreshConsistent(ontology)) => ret.val = EmptyMap

C10_Witness ==
    /\ ret.op = "classify"
    /\ ~FreshConsistent(ontology)
    /\ Len(extract_classes(ontology)) >= 2
    /\ ret.val = NewClassHierarchy

\* C11: when the ontology is inconsistent, is_instance_of(i, C) returns
\* true for every individual i and every class C.
C11_InconsistentInstanceOfTrue ==
    (ret.op = "is_instance_of" /\ ComplementPairAsserted(ontology)) => ret.val = TRUE

\* C12: realization soundness: for every individual i of the map returned by
\* realize and every class C in all(i), is_instance_of(i, C) returns true,
\* asked of the same reasoner next and asked of a freshly constructed
\* reasoner on the same ontology.
C12_RealizationSound ==
    ret.op = "realize" =>
        \A i \in DOMAIN ret.val :
            \A y \in 1..Len(ret.val[i].all) :
                /\ is_instance_of(ontology, graph, i, ret.val[i].all[y]).result = TRUE
                /\ is_instance_of(ontology, NewGraph, i, ret.val[i].all[y]).result = TRUE

C12_Witness ==
    /\ ret.op = "realize"
    /\ \E i \in DOMAIN ret.val :
        /\ Len(ret.val[i].all) >= 2
        /\ is_instance_of(ontology, graph, i, ret.val[i].all[2]).result = TRUE

\* the SubClassOf axioms make d a subclass of c and not c a subclass of d
StrictSubClass(onto, d, c) ==
    /\ d # c
    /\ SubClassChain(onto, d, c, Cardinality(ClassNames))
    /\ ~SubClassChain(onto, c, d, Cardinality(ClassNames))

\* C13: for every individual i of the map returned by realize,
\* most_specific(i) is a part of all(i), and no class of most_specific(i)
\* has a strict subclass in all(i).
C13_MostSpecificMinimal ==
    ret.op = "realize" =>
        \A i \in DOMAIN ret.val :
            /\ \A y \in 1..Len(ret.val[i].most_specific) :
                    Contains(ret.val[i].all, ret.val[i].most_specific[y])
            /\ ~ \E y \in 1..Len(ret.val[i].most_specific), z \in 1..Len(ret.val[i].all) :
                    StrictSubClass(ontology, ret.val[i].all[z], ret.val[i].most_specific[y])

\* the named individuals that occur in the assertions of the ontology
NamedIndividualsOf(onto) ==
    { ind \in UNION {{onto[a].inds[x] : x \in 1..Len(onto[a].inds)} : a \in 1..Len(onto)} :
        ind.kind = "Named" }

\* C14: for a consistent ontology the map returned by realize has an entry
\* for every named individual of the ontology's assertions, targets of
\* object property assertions included, and for no other individual.
C14_RealizeKeysNamedIndividuals ==
    (ret.op = "realize" /\ FreshConsistent(ontology)) =>
        DOMAIN ret.val = NamedIndividualsOf(ontology)

\* what a freshly constructed reasoner on the ontology answers to a call
FreshAnswer(onto, op, args) ==
    CASE op = "is_consistent" -> is_consistent(onto, NewGraph).result
      [] op = "classify" -> classify(onto, NewGraph).result
      [] op = "realize" -> realize(onto, NewGraph).result
      [] op = "is_instance_of" -> is_instance_of(onto, NewGraph, args[1], args[2]).result

\* C15: no reasoning state persists between invocations: after the
\* reasoner's ontology was changed between two service calls, the second
\* call answers exactly as a freshly constructed reasoner on the changed
\* ontology.
C15_NoStateBetweenCalls ==
    ret.op # "none" => ret.val = FreshAnswer(ontology, ret.op, ret.args)

\* SameIndividual(a, b) with a class expression asserted of a and its
\* complement asserted of b
SameIndividualsClash(onto) ==
    \E s, a, b \in 1..Len(onto) :
        /\ onto[s].t = "SameIndividual"
        /\ onto[a].t = "ClassAssertion"
        /\ onto[b].t = "ClassAssertion"
        /\ onto[a].inds # onto[b].inds
        /\ Contains(onto[s].inds, onto[a].inds[1])
        /\ Contains(onto[s].inds, onto[b].inds[1])
        /\ onto[b].ces[1] = ObjectComplementOf(onto[a].ces[1])

\* C16: individuals declared the same are merged: with SameIndividual(a, b),
\* ClassAssertion(A, a) and ClassAssertion(ComplementOf(A), b), is_consistent
\* returns false.
C16_SameIndividualMerged ==
    (ret.op = "is_consistent" /\ SameIndividualsClash(ontology)) => ret.val = FALSE

\* the individuals mentioned in the assertions of the ontology
MentionedIndividuals(onto) ==
    UNION {{onto[a].inds[x] : x \in 1..Len(onto[a].inds)} : a \in 1..Len(onto)}

\* C17: after initialization and in every later state of the expansion,
\* every individual mentioned in an assertion of the ontology has a node in
\* the completion graph, the target of every ObjectPropertyAssertion
\* included.
C17_EveryMentionedIndividualHasNode ==
    (pc # "idle" \/ calls > 0) =>
        \A individual \in MentionedIndividuals(ontology) :
            Position(graph.nodes, individual) # 0

\* C18: successive fresh_individual calls on one completion graph return
\* Anonymous("_:fresh{n}") with n strictly increasing over the graph's whole
\* lifetime: the last of a run of calls returns the name of the counter, and
\* the counter is above what it was before the run.
C18_FreshIdsStrictlyIncrease ==
    ret.op = "fresh_individual" =>
        /\ ret.val = Anonymous("_:fresh" \o U32ToString(graph.next_fresh_id))
        /\ u32_lt(ret.args[1], graph.next_fresh_id)

\* the expression holds, at some depth, a union, a complement, a universal
\* restriction, a cardinality restriction or an enumeration
RECURSIVE HoldsNonELConstructor(_)
HoldsNonELConstructor(expr) ==
    \/ expr.k \in {"ObjectUnionOf", "ObjectComplementOf", "ObjectAllValuesFrom", "ObjectOneOf",
                   "ObjectMinCardinality", "ObjectMaxCardinality", "ObjectExactCardinality"}
    \/ \E x \in 1..Len(expr.es) : HoldsNonELConstructor(expr.es[x])

\* the class expressions of the class axioms, class assertions and property
\* domains and ranges of the ontology
ClassExpressionsOf(onto) ==
    UNION { {onto[a].ces[x] : x \in 1..Len(onto[a].ces)} : a \in 1..Len(onto) }

\* C19: check_profile_compliance(O, EL) returns conforms = false and a
\* non-empty list of violations whenever a class expression of a class
\* axiom, class assertion or property domain or range of O holds, at any
\* depth, a union, complement, universal restriction, cardinality
\* restriction or enumeration.
C19_ELRejectsForbiddenConstructors ==
    (/\ ret.op = "check_profile_compliance"
     /\ ret.args[1] = "EL"
     /\ \E e \in ClassExpressionsOf(ontology) : HoldsNonELConstructor(e))
    => (ret.val.conforms = FALSE /\ ret.val.violations # <<>>)

C19_Witness ==
    /\ ret.op = "check_profile_compliance"
    /\ ret.args[1] = "EL"
    /\ ontology = <<ObjectPropertyRange(ObjectProperty("P"),
            ObjectSomeValuesFrom(ObjectProperty("P"),
                ObjectIntersectionOf(<<ObjectOneOf(<<Named("i")>>), Class("B")>>)))>>
    /\ ret.val.conforms = FALSE
    /\ ret.val.violations = <<"ObjectPropertyRange axiom has non-EL range expression">>

\* the data range names owl:real or owl:rational
RECURSIVE UsesRealOrRational(_)
UsesRealOrRational(range) ==
    \/ /\ range.k = "Datatype"
       /\ range.n \in {"owl:real", "owl:rational",
                       "http://www.w3.org/2002/07/owl#real",
                       "http://www.w3.org/2002/07/owl#rational"}
    \/ \E x \in 1..Len(range.es) : UsesRealOrRational(range.es[x])

\* C20: check_profile_compliance(O, RL) returns conforms = false when the
\* range of a DataPropertyRange axiom of O uses the owl:real or owl:rational
\* datatype.
C20_RLRejectsRealAndRational ==
    (/\ ret.op = "check_profile_compliance"
     /\ ret.args[1] = "RL"
     /\ \E a \in 1..Len(ontology) :
            ontology[a].t = "DataPropertyRange" /\ UsesRealOrRational(ontology[a].range))
    => ret.val.conforms = FALSE

\* the only axiom of the ontology is a SubClassOf with a named class as
\* subclass and, as superclass, an intersection with a union of named
\* classes and a non-empty enumeration among its operands
SubClassOfUnionAndOneOf(onto) ==
    /\ Len(onto) = 1
    /\ onto[1].t = "SubClassOf"
    /\ onto[1].ces[1].k = "Class"
    /\ onto[1].ces[2].k = "ObjectIntersectionOf"
    /\ \E x \in 1..Len(onto[1].ces[2].es) :
            /\ onto[1].ces[2].es[x].k = "ObjectUnionOf"
            /\ \A y \in 1..Len(onto[1].ces[2].es[x].es) :
                    onto[1].ces[2].es[x].es[y].k = "Class"
    /\ \E x \in 1..Len(onto[1].ces[2].es) :
            /\ onto[1].ces[2].es[x].k = "ObjectOneOf"
            /\ onto[1].ces[2].es[x].individuals # <<>>

\* C21: check_profile_compliance(O, RL) returns conforms = true when the
\* only axiom of O is a SubClassOf with a named class as subclass and, as
\* superclass, an ObjectIntersectionOf containing an ObjectUnionOf of named
\* classes and a non-empty ObjectOneOf.
C21_RLAcceptsUnionAndOneOfInSuperclass ==
    (/\ ret.op = "check_profile_compliance"
     /\ ret.args[1] = "RL"
     /\ SubClassOfUnionAndOneOf(ontology))
    => ret.val.conforms = TRUE

\* the expression holds, at some depth, a cardinality restriction with n >= 2
RECURSIVE HoldsCardinalityAboveOne(_)
HoldsCardinalityAboveOne(expr) ==
    \/ /\ expr.k \in {"ObjectMinCardinality", "ObjectMaxCardinality", "ObjectExactCardinality"}
       /\ expr.cardinality >= 2
    \/ \E x \in 1..Len(expr.es) : HoldsCardinalityAboveOne(expr.es[x])

\* the only axiom is SubClassOf(C, ObjectMaxCardinality(n, P, E)) with n <= 1
\* and named classes C and E
SubClassOfMaxCardinalityAtMostOne(onto) ==
    /\ Len(onto) = 1
    /\ onto[1].t = "SubClassOf"
    /\ onto[1].ces[1].k = "Class"
    /\ onto[1].ces[2].k = "ObjectMaxCardinality"
    /\ onto[1].ces[2].cardinality <= 1
    /\ PropertyVariant(onto[1].ces[2].n) = "ObjectProperty"
    /\ Len(onto[1].ces[2].es) = 1
    /\ onto[1].ces[2].es[1].k = "Class"

\* C22: check_profile_compliance(O, RL) returns conforms = false when a
\* class expression of a SubClassOf, EquivalentClasses, DisjointClasses,
\* class assertion or property domain or range of O holds a cardinality
\* restriction with n >= 2, and conforms = true for
\* SubClassOf(C, ObjectMaxCardinality(n, P, E)) with n <= 1.
C22_RLCardinalityZeroOrOne ==
    (ret.op = "check_profile_compliance" /\ ret.args[1] = "RL")
    => /\ (\E a \in 1..Len(ontology) :
                /\ ontology[a].t \in {"SubClassOf", "EquivalentClasses", "DisjointClasses",
                                      "ClassAssertion", "ObjectPropertyDomain",
                                      "ObjectPropertyRange", "DataPropertyDomain"}
                /\ \E x \in 1..Len(ontology[a].ces) :
                        HoldsCardinalityAboveOne(ontology[a].ces[x]))
           => ret.val.conforms = FALSE
       /\ SubClassOfMaxCardinalityAtMostOne(ontology) => ret.val.conforms = TRUE

\* C23: an is_consistent_async call whose blocking task failed does not
\* return false (nor true): a run that did not finish the expansion is
\* reported as an outcome distinct from consistent and inconsistent.
C23_UnfinishedRunNotReportedInconsistent ==
    (/\ pc = "idle"
     /\ ret.op = "is_consistent_async"
     /\ task.handle = "joined"
     /\ task.state = "failed")
    => ret.val \notin BOOLEAN

\* C29: once an async call has returned, or its future was dropped while
\* it awaited the blocking task, or the task failed, the Reasoner holds
\* the ontology it held when the call began (the one it was constructed
\* with, nothing else assigning it), never the empty placeholder.
C29_AsyncKeepsOntology ==
    (pc = "idle" /\ task.handle \in {"joined", "dropped"})
    => ontology = task.reasoner.ontology

\* the graph is closed under the universal rule: for every node with
\* ObjectAllValuesFrom(P, E) in its label and every role (P, j) of the node,
\* a node of j exists and has E in its label
ClosedUnderUniversalRule(g) ==
    \A x \in 1..Len(g.nodes) :
        \A c \in 1..Len(g.nodes[x].concepts) :
            g.nodes[x].concepts[c].k = "ObjectAllValuesFrom" =>
                \A r \in 1..Len(g.nodes[x].roles) :
                    g.nodes[x].roles[r][1] = g.nodes[x].concepts[c].n =>
                        /\ Position(g.nodes, g.nodes[x].roles[r][2]) # 0
                        /\ Contains(g.nodes[Position(g.nodes, g.nodes[x].roles[r][2])].concepts,
                                    g.nodes[x].concepts[c].es[1])

\* C25: when is_consistent returns, the graph is closed under the universal
\* rule: for every node i whose label contains All(P, E) and every edge
\* (i, P, j), node j exists and E is in its label.
C25_ClosedUnderUniversalRule ==
    ret.op = "is_consistent" => ClosedUnderUniversalRule(graph)

\* C26: for a consistent ontology O, is_instance_of(i, C) returns true
\* exactly when is_consistent returns false on O extended with
\* ClassAssertion(ObjectComplementOf(C), i).
C26_InstanceCheckIsReduction ==
    (ret.op = "is_instance_of" /\ FreshConsistent(ontology))
    => (ret.val = TRUE
        <=> ~FreshConsistent(Append(ontology,
                ClassAssertion(ObjectComplementOf(Class(ret.args[2])), ret.args[1]))))

C26_Witness ==
    /\ ret.op = "is_instance_of"
    /\ FreshConsistent(ontology)
    /\ ret.args = <<Named("i"), "A">>
    /\ ~Contains(ontology, ClassAssertion(Class("A"), Named("i")))
    /\ Contains(ontology, ClassAssertion(ObjectUnionOf(<<Class("A"), Class("B")>>), Named("i")))
    /\ ret.val = TRUE

\* C24: an application of the existential rule leaves the labels of the
\* nodes that existed before it unchanged (the filler only goes to a
\* freshly minted successor, never to an existing P-successor), hence it
\* brings no clash: a node with Some(P, A) and Some(P, ComplementOf(A))
\* does not cause one.
C24_ExistentialRuleMintsFresh ==
    [][(ret'.op = "apply_existential_rule" /\ calls' = calls + 1)
        => /\ \A x \in 1..Len(graph.nodes) :
                graph'.nodes[x].concepts = graph.nodes[x].concepts
           /\ has_clash(graph') = has_clash(graph)]_vars

\* no concept list holds a class expression twice and no role list holds a
\* (property, target) pair twice
NoDuplicates(g) ==
    \A x \in 1..Len(g.nodes) :
        /\ \A c, d \in 1..Len(g.nodes[x].concepts) :
                g.nodes[x].concepts[c] = g.nodes[x].concepts[d] => c = d
        /\ \A r, s \in 1..Len(g.nodes[x].roles) :
                g.nodes[x].roles[r] = g.nodes[x].roles[s] => r = s

\* C27: in every graph reached by add_concept, add_role and applications
\* of the four rules, no node's concept list contains the same class
\* expression twice and no node's role list contains the same
\* (property, target) pair twice.
C27_NoDuplicatesInLabels == NoDuplicates(graph)

C27_Witness ==
    /\ ret.op = "apply_disjunction_rule"
    /\ ret.val = FALSE
    /\ \E x \in 1..Len(graph.nodes) :
        /\ Len(graph.nodes[x].concepts) >= 3
        /\ Contains(graph.nodes[x].concepts, ObjectUnionOf(<<Class("A"), Class("B")>>))
        /\ Contains(graph.nodes[x].concepts, Class("A"))

\* C30: in every graph reached from the empty graph by get_or_create_node,
\* add_concept, add_role, initialize and the rules, no two nodes carry the
\* same individual, also when an anonymous individual "_:fresh{n}" was
\* named by the ontology or the client.
C30_OneNodePerIndividual ==
    \A x, y \in 1..Len(graph.nodes) :
        graph.nodes[x].individual = graph.nodes[y].individual => x = y

\* the cache a store_* call writes to
StoredIn(c, op) ==
    CASE op = "store_consistency" -> c.consistency_cache
      [] op = "store_classification" -> c.classification_cache
      [] op = "store_realization" -> c.realization_cache

\* the map after a store with FIFO eviction: the entry inserted earliest is
\* removed when the map exceeds max_cache_size
StoredFIFO(entries, max_cache_size) ==
    IF Len(entries) > max_cache_size THEN Tail(entries) ELSE entries

\* C28: when a store_consistency, store_classification or store_realization
\* call makes a cache exceed max_cache_size, the entry removed is the one
\* inserted earliest, so for max_cache_size >= 1 the entry just stored is
\* still returned by the matching get.
C28_CacheEvictionFIFO ==
    [][(/\ calls' = calls + 1
        /\ ret'.op \in {"store_consistency", "store_classification", "store_realization"}
        /\ cache.config.enabled)
       => /\ StoredIn(cache', ret'.op)
                = StoredFIFO(hashmap_insert(StoredIn(cache, ret'.op),
                                            compute_ontology_hash(ret'.args[1]), ret'.args[2]),
                             cache.config.max_cache_size)
          /\ cache.config.max_cache_size >= 1
                => get(cache'.config, StoredIn(cache', ret'.op),
                       compute_ontology_hash(ret'.args[1])) = <<ret'.args[2]>>]_vars

====
